---- MODULE Spec2Model ----
(***************************************************************************)
(* API Report Mailer (josemqu/precio-nafta-info).                          *)
(*                                                                         *)
(* The repository holds three builds of index.js:                          *)
(*   v1  src/index.js 1-232          range filter over a bare array,       *)
(*                                   single-shot mailer                    *)
(*   v2  src/unnamed/part_001 153-700 range filter over the envelope,      *)
(*                                   "today" HTML report, single-shot      *)
(*   v3  src/index.js 234-1080       "today" filter at UTC-3, HTML report, *)
(*                                   mailer with a bounded retry loop      *)
(* One process runs one build; the build is fixed in the initial state.    *)
(***************************************************************************)
EXTENDS Integers, Sequences, FiniteSets, TLC

----------------------------------------------------------------------------
(* Bounds of the model *)

MaxReqs == 2          \* HTTP requests the process receives
MaxTriggers == 1      \* of which /trigger-report requests
MaxPairReqs == 2      \* trigger requests in flight together (SpecPair)
MaxDated == 2         \* records of a dataset that varies the date fields
MaxGrouped == 3       \* records of a dataset that varies the grouped fields
MaxSpread == 12       \* records of a dataset spread over many localities
MaxRetries == 4       \* largest `retries` argument given to sendEmail
TickMs == 2000        \* granularity of the clock
MaxTicks == 2         \* clock ticks with no timer pending
MaxBootReqs == 1      \* requests arriving while the process starts
MaxLiveReqs == 1      \* trigger requests followed to their answer

Builds == {"v1", "v2", "v3"}

VARIABLES
  build,   \* which index.js the process runs
  now,     \* the clock: server-local wall clock, ms
  tz,      \* UTC offset, in hours, of the zone the server process runs in
  reqs,    \* request slot -> handler activation
  probe,   \* one direct evaluation (a data function, the mail
           \* configuration): arguments and result
  server   \* the process: listening or not, state of the SMTP verification

vars == <<build, now, tz, reqs, probe, server>>

----------------------------------------------------------------------------
(* JavaScript values *)

Undefined == -1       \* absent field / undefined
Null == -2            \* null
Garbage == -3         \* a string that does not parse as a date
InvalidMoment == -9   \* moment whose isValid() is false

HourMs == 60 * 60 * 1000
DayMs == 24 * HourMs

\* UTC offset of the zone the server process runs in
ServerUtcOffsetMs == tz * HourMs

Truthy(x) == x \notin {Undefined, Null}

\* a || b
Or(a, b) == IF Truthy(a) THEN a ELSE b

Ok(v) == [ok |-> TRUE, val |-> v]
Throw(m) == [ok |-> FALSE, msg |-> m]

\* moment(x) for a timestamp field of a record; moment(undefined) is now
Moment(x, t) ==
  IF x = Undefined THEN t
  ELSE IF x \in {Null, Garbage} THEN InvalidMoment
  ELSE x

\* moment("YYYY-MM-DD"): local midnight of that calendar day
MomentOfDate(d, t) ==
  IF d = Undefined THEN t
  ELSE IF d \in {Null, Garbage} THEN InvalidMoment
  ELSE d * DayMs

isValid(m) == m # InvalidMoment

\* moment.format("YYYY-MM-DD"), as a day number; "Invalid date" otherwise
FormatDate(m) == IF isValid(m) THEN m \div DayMs ELSE Garbage

\* a.isAfter(b)
isAfter(a, b) == isValid(a) /\ isValid(b) /\ a > b

\* variant: both ends exclusive, m.isBetween(s, e)
isBetween_exclusive(m, s, e) ==
  isValid(m) /\ isValid(s) /\ isValid(e) /\ s < m /\ m < e

\* m.isBetween(s, e, null, "[]")
isBetween(m, s, e) ==
  isValid(m) /\ isValid(s) /\ isValid(e) /\ s <= m /\ m <= e

----------------------------------------------------------------------------
(* Upstream response bodies *)

NullItem == [null |-> TRUE]
IsNullItem(i) == DOMAIN i = {"null"}

\* a record of the dataset.  The three timestamps are instants (ms) or
\* Undefined / Null / Garbage; the names are strings, "" standing for any
\* falsy value (absent, null, ""); idempresa and precio are numbers or
\* Undefined
Rec(fv, f, d) ==
  [fecha_vigencia |-> fv, fecha |-> f, date |-> d,
   producto |-> "", provincia |-> "", empresa |-> "", empresabandera |-> "",
   localidad |-> "", idempresa |-> Undefined, precio |-> Undefined]

\* the record rec with its names, station id and price filled in
Priced(rec, producto, provincia, empresa, empresabandera, localidad, idempresa, precio) ==
  [rec EXCEPT !.producto = producto, !.provincia = provincia,
              !.empresa = empresa, !.empresabandera = empresabandera,
              !.localidad = localidad, !.idempresa = idempresa,
              !.precio = precio]

NullBody == [shape |-> "null", records |-> <<>>]
EmptyBody == [shape |-> "object", records |-> <<>>]          \* {}
NoRecordsBody == [shape |-> "result", records |-> <<>>]      \* {result: {}}
Envelope(rs) == [shape |-> "envelope", records |-> rs]       \* {result: {records}}
BareArray(rs) == [shape |-> "array", records |-> rs]         \* [...]

IsArray(data) == data.shape = "array"
\* !data || !data.result || !Array.isArray(data.result.records)
BadEnvelope(data) == data.shape # "envelope"

HasNullItem(rs) == \E i \in 1..Len(rs) : IsNullItem(rs[i])

TypeErrorNull(field) ==
  "Cannot read properties of null (reading '" \o field \o "')"
TypeErrorUndefined(field) ==
  "Cannot read properties of undefined (reading '" \o field \o "')"

----------------------------------------------------------------------------
(* Date filters.  `t` is the reading of the clock (server-local wall clock) *)

\* a filter's return value: an array of records, or the input handed back
Items(rs) == [isArray |-> TRUE, items |-> rs]
NotArray == [isArray |-> FALSE, items |-> <<>>]

\* build v1
filterDataByDate_v1(data, startDate, endDate, t) ==
  IF ~IsArray(data) THEN Ok(NotArray)
  ELSE IF HasNullItem(data.records) THEN Throw(TypeErrorNull("date"))
  ELSE
    LET start == MomentOfDate(startDate, t)
        end == MomentOfDate(endDate, t)
        Match(item) ==
          isBetween(Moment(Or(item.date, Undefined), t), start, end)
    IN Ok(Items(SelectSeq(data.records, Match)))

\* build v2
filterDataByDate_v2(data, startDate, endDate, t) ==
  IF BadEnvelope(data) THEN Ok(Items(<<>>))
  ELSE IF HasNullItem(data.records) THEN Throw(TypeErrorNull("fecha"))
  ELSE
    LET start == MomentOfDate(startDate, t)
        end == MomentOfDate(endDate, t)
        Match(item) ==
          isBetween(Moment(Or(item.fecha, Or(item.date, Undefined)), t),
                    start, end)
    IN Ok(Items(SelectSeq(data.records, Match)))

\* build v2
filterTodayData_v2(data, t) ==
  IF BadEnvelope(data) THEN Ok(Items(<<>>))
  ELSE IF HasNullItem(data.records) THEN Throw(TypeErrorNull("fecha"))
  ELSE
    LET today == FormatDate(t)
        Match(item) == FormatDate(Moment(item.fecha, t)) = today
    IN Ok(Items(SelectSeq(data.records, Match)))

\* build v3: moment().utcOffset(-3).format("YYYY-MM-DD")
TodayArgentina(t) == FormatDate(t - ServerUtcOffsetMs - 3 * HourMs)

\* build v3
filterTodayData(data, t) ==
  IF BadEnvelope(data) THEN Ok(Items(<<>>))
  ELSE IF HasNullItem(data.records)
    THEN Throw(TypeErrorNull("fecha_vigencia"))
  ELSE
    LET todayArgentina == TodayArgentina(t)
        Match(item) ==
          FormatDate(Moment(item.fecha_vigencia, t)) = todayArgentina
    IN Ok(Items(SelectSeq(data.records, Match)))

\* variant: the filter removes the rejected records from the array it is
\* called on
filterReceiver_inPlace(records, kept) == kept

\* records.filter(...): the array the filter was called on, after the call;
\* Array.prototype.filter builds a new array
filterReceiver(records, kept) == records

\* the response body after a filter ran on it and returned `filtered`; a
\* filter that returned early or threw has touched nothing.  groupDataBy and
\* the sorts of analyzeData and of the template act on arrays they built
Held(data, filtered) ==
  IF filtered.ok /\ filtered.val.isArray
       /\ data.shape \in {"envelope", "array"}
    THEN [data EXCEPT !.records = filterReceiver(@, filtered.val.items)]
    ELSE data

----------------------------------------------------------------------------
(* Aggregation and rendering *)

SinEspecificar == "Sin especificar"
TopLocalities == 10   \* .slice(0, 10)

\* property names that are array indices, in ascending numeric order
IntegerKeys == <<"9", "25", "100">>
IsIntegerKey(k) == \E i \in 1..Len(IntegerKeys) : IntegerKeys[i] = k

\* the distinct elements of ks, each at its first occurrence
FirstSeen(ks) ==
  LET IsFirst(i) == \A j \in 1..(i - 1) : ks[j] # ks[i]
      idx == SelectSeq([i \in 1..Len(ks) |-> i], IsFirst)
  IN [n \in 1..Len(idx) |-> ks[idx[n]]]

\* Object.keys(o) of an object whose properties were created in the order
\* `inserted`: array indices first, ascending, then the other strings in
\* creation order
ObjectKeys(inserted) ==
  LET Present(k) == \E i \in 1..Len(inserted) : inserted[i] = k
      Named(k) == ~IsIntegerKey(k)
  IN SelectSeq(IntegerKeys, Present) \o SelectSeq(inserted, Named)

\* const key = item[field] || "Sin especificar"
GroupKey(item, field) ==
  IF item[field] = "" THEN SinEspecificar ELSE item[field]

\* variant: a record whose field is missing is left out of every group
groupDataBy_dropMissing(data, field) ==
  LET Has(item) == item[field] # ""
      kept == SelectSeq(data, Has)
      keys == ObjectKeys(FirstSeen([i \in 1..Len(kept) |-> kept[i][field]]))
      Of(key) == LET In(item) == item[field] = key
                 IN SelectSeq(kept, In)
  IN [n \in 1..Len(keys) |-> [key |-> keys[n], records |-> Of(keys[n])]]

\* groupDataBy(data, field) read through Object.keys: the keys in Object.keys
\* order, each with its records in data order
groupDataBy(data, field) ==
  LET keys == ObjectKeys(FirstSeen([i \in 1..Len(data) |->
                                      GroupKey(data[i], field)]))
      Of(key) == LET In(item) == GroupKey(item, field) = key
                 IN SelectSeq(data, In)
  IN [n \in 1..Len(keys) |-> [key |-> keys[n], records |-> Of(keys[n])]]

\* new Set(records.map((item) => item.idempresa).filter(Boolean))
StationIds(records) ==
  {records[i].idempresa : i \in 1..Len(records)} \ {Undefined, Null, 0}

\* Object.keys(groups).map((name) => ({name, count, activeStations}))
GroupList(groups) ==
  [n \in 1..Len(groups) |->
     [name |-> groups[n].key, count |-> Len(groups[n].records),
      activeStations |-> Cardinality(StationIds(groups[n].records))]]

\* variant: the list is left in the order of Object.keys
SortByCount_keysOrder(list) == list

\* list.sort((a, b) => b.count - a.count): Array.prototype.sort is stable
SortByCount(list) ==
  LET Before(i, j) ==
        \/ list[i].count > list[j].count
        \/ list[i].count = list[j].count /\ i < j
      Rank(i) == Cardinality({j \in 1..Len(list) : Before(j, i)}) + 1
  IN [n \in 1..Len(list) |->
        list[CHOOSE i \in 1..Len(list) : Rank(i) = n]]

\* list.slice(0, n)
Slice(list, n) == SubSeq(list, 1, IF Len(list) < n THEN Len(list) ELSE n)

\* item.precio && item.precio > 0
HasPrice(item) == item.precio \notin {Undefined, Null} /\ item.precio > 0

\* build v2: Object.keys(groups).map((name) => ({name, count}))
GroupList_v2(groups) ==
  [n \in 1..Len(groups) |->
     [name |-> groups[n].key, count |-> Len(groups[n].records)]]

\* new Set(records.map((item) => item.empresabandera).filter(Boolean))
Brands(records) ==
  {records[i].empresabandera : i \in 1..Len(records)} \ {""}

\* new Set(records.map((item) => item[field])): undefined and "" are
\* elements like any other value
ValuesOf(records, field) == {records[i][field] : i \in 1..Len(records)}

\* build v2: item.precio
HasPrice_v2(item) == item.precio \notin {Undefined, Null, 0}

\* numbers that are not finite
NaN == -4
Infinity == -5

\* (part / whole) * 100, in hundredths, rounded to the nearest
Ratio100(part, whole) ==
  IF whole = 0 THEN (IF part = 0 THEN NaN ELSE Infinity)
  ELSE (2 * 10000 * part + whole) \div (2 * whole)

\* x.toFixed(2): a string, "NaN" and "Infinity" for the values not finite
toFixed2(x) == [string |-> TRUE, hundredths |-> x]

\* the number 0
Zero == [string |-> FALSE, hundredths |-> 0]

\* variant: the ratio is computed whatever the denominator
percentage_unguarded(part, whole) == toFixed2(Ratio100(part, whole))

\* whole > 0 ? ((part / whole) * 100).toFixed(2) : 0
percentage(part, whole) ==
  IF whole > 0 THEN toFixed2(Ratio100(part, whole)) ELSE Zero

\* build v2: the group lists are left in Object.keys order
analyzeData_v2(todayData) ==
  LET priced == SelectSeq(todayData, HasPrice_v2)
      uniqueCompanies == Brands(todayData)
      companiesWithPrices == ValuesOf(priced, "empresabandera")
  IN Ok([totalRecords |-> Len(todayData),
         byProduct |-> GroupList_v2(groupDataBy(todayData, "producto")),
         byProvince |-> GroupList_v2(groupDataBy(todayData, "provincia")),
         byFlagCompany |->
           GroupList_v2(groupDataBy(todayData, "empresabandera")),
         flagCompanyStats |->
           [totalCompanies |-> Cardinality(uniqueCompanies),
            companiesWithPrices |-> Cardinality(companiesWithPrices),
            percentage |-> percentage(Cardinality(companiesWithPrices),
                                      Cardinality(uniqueCompanies))]])

\* build v3; allData is apiData.result.records, possibly undefined
analyzeData(todayData, allData) ==
  IF ~allData.isArray THEN Throw(TypeErrorUndefined("map"))
  ELSE
    LET priced == SelectSeq(todayData, HasPrice)
        totalUniqueStations == StationIds(allData.items)
        activeStationsToday == StationIds(todayData)
        activeStationsWithPrices == ValuesOf(priced, "idempresa")
        activeBrandsToday == Brands(todayData)
        activeBrandsWithPrices == ValuesOf(priced, "empresabandera")
    IN Ok([totalRecords |-> Len(todayData),
           byProduct |->
             SortByCount(GroupList(groupDataBy(todayData, "producto"))),
           byProvince |->
             SortByCount(GroupList(groupDataBy(todayData, "provincia"))),
           byGasStation |->
             SortByCount(GroupList(groupDataBy(todayData, "empresa"))),
           byFlagCompany |->
             SortByCount(GroupList(groupDataBy(todayData,
                                               "empresabandera"))),
           byLocality |->
             Slice(SortByCount(GroupList(groupDataBy(todayData,
                                                     "localidad"))),
                   TopLocalities),
           gasStationStats |->
             [totalStations |-> Cardinality(totalUniqueStations),
              activeStationsToday |-> Cardinality(activeStationsToday),
              activeStationsWithPrices |->
                Cardinality(activeStationsWithPrices),
              percentageActive |->
                percentage(Cardinality(activeStationsToday),
                           Cardinality(totalUniqueStations)),
              percentageWithPrices |->
                percentage(Cardinality(activeStationsWithPrices),
                           Cardinality(activeStationsToday))],
           flagCompanyStats |->
             [totalBrands |-> Cardinality(activeBrandsToday),
              activeBrandsToday |-> Cardinality(activeBrandsToday),
              activeBrandsWithPrices |->
                Cardinality(activeBrandsWithPrices),
              percentageActive |->
                percentage(Cardinality(activeBrandsWithPrices),
                           Cardinality(activeBrandsToday))]])

Markdown(n) ==
  [format |-> "markdown", totalRecords |-> n, tables |-> FALSE,
   noData |-> FALSE]
\* variant: the template renders the tables whatever the record count
Html_tablesAlways(analysis) ==
  [format |-> "html", totalRecords |-> analysis.totalRecords,
   tables |-> TRUE, noData |-> FALSE, analysis |-> analysis]

\* the template renders the tables when totalRecords > 0, else the placeholder
Html(analysis) ==
  [format |-> "html", totalRecords |-> analysis.totalRecords,
   tables |-> analysis.totalRecords > 0,
   noData |-> ~(analysis.totalRecords > 0),
   analysis |-> analysis]

\* build v2: the template sorts byProvince and byFlagCompany in place while
\* it renders their tables; byProduct is rendered as analyzeData left it
Html_v2(analysis) ==
  Html([analysis EXCEPT !.byProvince = SortByCount(@),
                        !.byFlagCompany = SortByCount(@)])

\* build v1
generateReport_v1(filteredData, startDate, endDate, t) ==
  Ok(Markdown(IF filteredData.isArray THEN Len(filteredData.items) ELSE 1))

\* build v2
generateReport_v2(apiData, startDate, endDate, t) ==
  LET todayData == filterTodayData_v2(apiData, t)
  IN IF ~todayData.ok THEN todayData
     ELSE LET analysis == analyzeData_v2(todayData.val.items)
          IN IF ~analysis.ok THEN analysis ELSE Ok(Html_v2(analysis.val))

\* build v3
generateReport(apiData, t) ==
  LET todayData == filterTodayData(apiData, t)
  IN IF ~todayData.ok THEN todayData
     ELSE IF apiData.shape = "null" THEN Throw(TypeErrorNull("result"))
     ELSE
       LET allData ==
             IF apiData.shape \in {"envelope", "result"}
               THEN IF apiData.shape = "envelope"
                      THEN Items(apiData.records) ELSE NotArray
               ELSE Items(<<>>)
           analysis == analyzeData(todayData.val.items, allData)
       IN IF ~analysis.ok THEN analysis ELSE Ok(Html(analysis.val))

----------------------------------------------------------------------------
(* Mailer.  A mail state is the activation record of one sendEmail call. *)

DefaultRetries == 3   \* sendEmail(reportContent, retries = 3)
RetryBaseMs == 2000   \* const waitTime = attempt * 2000

NoResult == [defined |-> FALSE, success |-> FALSE, messageId |-> ""]
NoMail ==
  [pc |-> "idle", retries |-> 0, attempt |-> 0, sends |-> 0, log |-> <<>>,
   waits |-> <<>>, deadline |-> Undefined, setAt |-> Undefined,
   result |-> NoResult, error |-> ""]

\* build v3: sendEmail up to its first await; a loop that never runs
\* falls off the end of the function and resolves with undefined
sendEmail(reportContent, retries, t) ==
  IF 1 <= retries
    THEN [NoMail EXCEPT !.pc = "sendMail", !.retries = retries,
                        !.attempt = 1, !.sends = 1]
    ELSE [NoMail EXCEPT !.pc = "resolved", !.retries = retries]

\* builds v1, v2: one sendMail call, no loop
sendEmail_v1(reportContent, t) ==
  [NoMail EXCEPT !.pc = "sendMail", !.retries = 1, !.attempt = 1,
                 !.sends = 1]

\* variant: the success branch has lost its return, the loop goes on
sendMailResolved_noReturn(m, id) ==
  [m EXCEPT !.pc = IF m.attempt < m.retries THEN "sendMail" ELSE "resolved",
            !.log = Append(@, [n |-> m.attempt, ok |-> TRUE, info |-> id]),
            !.attempt = IF m.attempt < m.retries THEN @ + 1 ELSE @,
            !.sends = IF m.attempt < m.retries THEN @ + 1 ELSE @,
            !.result = [defined |-> TRUE, success |-> TRUE,
                        messageId |-> id]]

\* await transporter.sendMail(...) resolved with info.messageId = id
sendMailResolved(m, id) ==
  [m EXCEPT !.pc = "resolved",
            !.log = Append(@, [n |-> m.attempt, ok |-> TRUE, info |-> id]),
            !.result = [defined |-> TRUE, success |-> TRUE,
                        messageId |-> id]]

\* variant: a constant wait instead of a linear one
waitTime_flat(attempt) == RetryBaseMs

\* build v3: const waitTime = attempt * 2000
waitTime(attempt) == attempt * RetryBaseMs

\* variant: the loop gives up one attempt early (attempt + 1 < retries)
sendMailRejected_early(m, msg, t) ==
  LET logged ==
        [m EXCEPT !.log = Append(@, [n |-> m.attempt, ok |-> FALSE,
                                     info |-> msg])]
  IN IF m.attempt + 1 < m.retries
       THEN [logged EXCEPT !.pc = "timer",
                           !.waits = Append(@, [ms |-> waitTime(m.attempt),
                                                elapsed |-> Undefined]),
                           !.deadline = t + waitTime(m.attempt),
                           !.setAt = t]
       ELSE [logged EXCEPT !.pc = "rejected",
                           !.error = "Failed to send email after "
                                     \o ToString(m.retries)
                                     \o " attempts: " \o msg]

\* build v3: the catch block of the retry loop
sendMailRejected(m, msg, t) ==
  LET logged ==
        [m EXCEPT !.log = Append(@, [n |-> m.attempt, ok |-> FALSE,
                                     info |-> msg])]
  IN IF m.attempt < m.retries
       THEN [logged EXCEPT !.pc = "timer",
                           !.waits = Append(@, [ms |-> waitTime(m.attempt),
                                                elapsed |-> Undefined]),
                           !.deadline = t + waitTime(m.attempt),
                           !.setAt = t]
       ELSE [logged EXCEPT !.pc = "rejected",
                           !.error = "Failed to send email after "
                                     \o ToString(m.retries)
                                     \o " attempts: " \o msg]

\* builds v1, v2: the catch block of sendEmail
sendMailRejected_v1(m, msg, t) ==
  [m EXCEPT !.pc = "rejected",
            !.log = Append(@, [n |-> m.attempt, ok |-> FALSE, info |-> msg]),
            !.error = "Failed to send email: " \o msg]

\* variant: the loop retries without counting the attempt
timerFired_sameAttempt(m, t) ==
  [m EXCEPT !.pc = "sendMail",
            !.sends = @ + 1,
            !.waits[Len(m.waits)].elapsed = t - m.setAt,
            !.deadline = Undefined,
            !.setAt = Undefined]

\* build v3: the setTimeout of the retry loop fired; attempt++ and the
\* next sendMail call
timerFired(m, t) ==
  [m EXCEPT !.pc = "sendMail",
            !.attempt = @ + 1,
            !.sends = @ + 1,
            !.waits[Len(m.waits)].elapsed = t - m.setAt,
            !.deadline = Undefined,
            !.setAt = Undefined]

----------------------------------------------------------------------------
(* HTTP surface.  A request record is the activation of one route handler. *)

NoReport ==
  [format |-> "none", totalRecords |-> 0, tables |-> FALSE, noData |-> FALSE]
NoResp == [none |-> TRUE]

\* no response of the upstream API yet
NoBody == [shape |-> "none", records |-> <<>>]

NoReq ==
  [method |-> "NONE", pc |-> "none", startDate |-> Undefined,
   endDate |-> Undefined, start |-> Undefined, end |-> Undefined,
   resolved |-> FALSE, gets |-> 0, upstream |-> "none", trace |-> <<>>,
   received |-> NoBody, dataset |-> NoBody, filtered |-> Undefined,
   report |-> NoReport, mail |-> NoMail, raised |-> "", status |-> 0,
   resp |-> NoResp]

\* res.status(code).json(body)
Respond(r, code, body) ==
  [r EXCEPT !.pc = "done", !.status = code, !.resp = body,
            !.trace = Append(@, "respond")]

\* an Error with message msg is thrown inside the handler's try block
Raise(r, msg) == [r EXCEPT !.raised = msg, !.trace = Append(@, "error")]

\* variant: the catch block logs the error and answers nothing
triggerCatch_silent(r) == [r EXCEPT !.pc = "done"]

\* the catch block of the trigger handlers
triggerCatch(r) ==
  Respond(r, 500,
          [error |-> "Failed to execute report workflow",
           details |-> r.raised])

\* a throw inside the workflow: its catch rethrows, the handler's answers
Respond500(r, msg) == triggerCatch(Raise(r, msg))

\* variant: the health check probes the upstream API
health_probe(r, t) ==
  Respond([r EXCEPT !.method = "HEALTH", !.gets = @ + 1], 200,
          [status |-> "OK", timestamp |-> t, service |-> "API Report Mailer"])

\* app.get("/health")
health(r, t) ==
  Respond([r EXCEPT !.method = "HEALTH"], 200,
          [status |-> "OK", timestamp |-> t, service |-> "API Report Mailer"])

\* variant: the GET is issued twice
fetchApiData_twice(r) ==
  [r EXCEPT !.pc = "fetch", !.gets = @ + 2, !.upstream = "pending",
            !.trace = Append(@, "GET")]

\* fetchApiData up to its await: the one axios.get of the request
fetchApiData(r) ==
  [r EXCEPT !.pc = "fetch", !.gets = @ + 1, !.upstream = "pending",
            !.trace = Append(@, "GET")]

\* variant: the catch block issues the GET again
fetchApiDataRejected_retry(r, msg) ==
  [r EXCEPT !.pc = "fetch", !.gets = @ + 1, !.trace = Append(@, "GET")]

\* the catch block of fetchApiData: no retry, the wrapped error propagates
fetchApiDataRejected(r, msg) ==
  Respond500(r, "Failed to fetch API data: " \o msg)

WorkflowOk == "Report workflow executed successfully"

\* builds v1, v2: executeReportWorkflow from the return of fetchApiData to
\* the first sendMail call (one synchronous run).  The filter reads the
\* clock at t, generateReport and what follows read it at t2
executeReportWorkflow_v1(r, apiData, v2, t, t2) ==
  LET r1 == [r EXCEPT !.trace = Append(@, "fetched"), !.dataset = apiData]
      filteredData ==
        IF v2 THEN filterDataByDate_v2(apiData, r.start, r.end, t)
        ELSE filterDataByDate_v1(apiData, r.start, r.end, t)
      held == Held(apiData, filteredData)
      r2 == [r1 EXCEPT !.trace = Append(@, "filter"), !.dataset = held]
  IN IF ~filteredData.ok THEN Respond500(r2, filteredData.msg)
     ELSE
       LET reportContent ==
             IF v2 THEN generateReport_v2(held, r.start, r.end, t2)
             ELSE generateReport_v1(filteredData.val, r.start, r.end, t2)
           r3 == [r2 EXCEPT
                    !.filtered = IF filteredData.val.isArray
                                   THEN Len(filteredData.val.items) ELSE 1,
                    !.dataset = IF v2
                                  THEN Held(held, filterTodayData_v2(held, t2))
                                  ELSE held,
                    !.trace = Append(@, "render")]
       IN IF ~reportContent.ok THEN Respond500(r3, reportContent.msg)
          ELSE [r3 EXCEPT !.report = reportContent.val,
                          !.mail = sendEmail_v1(reportContent.val, t2),
                          !.pc = "mail",
                          !.trace = Append(@, "sendMail")]

\* variant: apiData is kept in a module-level variable that the first
\* response fills, and every later request reads
executeReportWorkflow_shared(r, apiData, t, t2) ==
  LET earlier == {j \in DOMAIN reqs : reqs[j].received # NoBody}
      shared == IF earlier = {} THEN apiData
                ELSE reqs[CHOOSE j \in earlier : TRUE].received
      r1 == [r EXCEPT !.trace = Append(@, "fetched")]
      todayData == filterTodayData(shared, t)
      r2 == [r1 EXCEPT !.trace = Append(@, "filter")]
  IN IF ~todayData.ok THEN Respond500(r2, todayData.msg)
     ELSE
       LET reportContent == generateReport(shared, t2)
           r3 == [r2 EXCEPT !.filtered = Len(todayData.val.items),
                            !.trace = Append(@, "render")]
       IN IF ~reportContent.ok THEN Respond500(r3, reportContent.msg)
          ELSE
            LET m == sendEmail(reportContent.val, DefaultRetries, t2)
            IN [r3 EXCEPT !.report = reportContent.val,
                          !.mail = m,
                          !.pc = "mail",
                          !.trace = IF m.sends > 0
                                      THEN Append(@, "sendMail") ELSE @]

\* build v3: executeReportWorkflow from the return of fetchApiData to the
\* first sendMail call.  filterTodayData reads the clock at t, generateReport
\* (which filters again) and what follows read it at t2
executeReportWorkflow(r, apiData, t, t2) ==
  LET r1 == [r EXCEPT !.trace = Append(@, "fetched"), !.dataset = apiData]
      todayData == filterTodayData(apiData, t)
      held == Held(apiData, todayData)
      r2 == [r1 EXCEPT !.trace = Append(@, "filter"), !.dataset = held]
  IN IF ~todayData.ok THEN Respond500(r2, todayData.msg)
     ELSE
       LET reportContent == generateReport(held, t2)
           r3 == [r2 EXCEPT !.filtered = Len(todayData.val.items),
                            !.dataset = Held(held, filterTodayData(held, t2)),
                            !.trace = Append(@, "render")]
       IN IF ~reportContent.ok THEN Respond500(r3, reportContent.msg)
          ELSE
            LET m == sendEmail(reportContent.val, DefaultRetries, t2)
            IN [r3 EXCEPT !.report = reportContent.val,
                          !.mail = m,
                          !.pc = "mail",
                          !.trace = IF m.sends > 0
                                      THEN Append(@, "sendMail") ELSE @]

\* variant: a rejected sendEmail is swallowed and the request still succeeds
triggerRespond_swallow(r, v3) ==
  LET emailResult == r.mail.result
  IN IF v3
       THEN Respond(r, 200,
              [message |-> WorkflowOk,
               result |-> [success |-> TRUE, todayRecords |-> r.filtered,
                           emailSent |-> emailResult.success,
                           messageId |-> emailResult.messageId]])
     ELSE Respond(r, 200,
            [message |-> WorkflowOk,
             period |-> [startDate |-> r.start, endDate |-> r.end],
             result |-> [success |-> TRUE, totalRecords |-> r.filtered,
                         emailSent |-> emailResult.success,
                         messageId |-> emailResult.messageId]])

\* the workflow's return value and the handler's res.json, or the catch
\* block when sendEmail rejected
triggerRespond(r, v3) ==
  LET emailResult == r.mail.result
  IN IF r.mail.pc = "rejected" THEN Respond500(r, r.mail.error)
     ELSE IF ~emailResult.defined
       THEN Respond500(r, TypeErrorUndefined("success"))
     ELSE IF v3
       THEN Respond(r, 200,
              [message |-> WorkflowOk,
               result |-> [success |-> TRUE, todayRecords |-> r.filtered,
                           emailSent |-> emailResult.success,
                           messageId |-> emailResult.messageId]])
     ELSE Respond(r, 200,
            [message |-> WorkflowOk,
             period |-> [startDate |-> r.start, endDate |-> r.end],
             result |-> [success |-> TRUE, totalRecords |-> r.filtered,
                         emailSent |-> emailResult.success,
                         messageId |-> emailResult.messageId]])

\* variant: the default window is taken from the date at UTC-3
ResolveDates_atUtcMinus3(r, startDate, endDate, t) ==
  [r EXCEPT !.startDate = startDate, !.endDate = endDate,
            !.start = Or(startDate, FormatDate(t - 3 * HourMs - 7 * DayMs)),
            !.end = Or(endDate, FormatDate(t - 3 * HourMs)),
            !.resolved = TRUE]

\* builds v1, v2: const start = startDate || moment().subtract(7, "days")...
ResolveDates(r, startDate, endDate, t) ==
  [r EXCEPT !.startDate = startDate, !.endDate = endDate,
            !.start = Or(startDate, FormatDate(t - 7 * DayMs)),
            !.end = Or(endDate, FormatDate(t)),
            !.resolved = TRUE]

\* variant: the POST handler without its two validation checks
postTriggerReport_v1_unchecked(r, startDate, endDate, t) ==
  fetchApiData(ResolveDates([r EXCEPT !.method = "POST"], startDate, endDate, t))

\* builds v1, v2: app.post("/trigger-report") up to its first await
postTriggerReport_v1(r, startDate, endDate, t) ==
  LET q == ResolveDates([r EXCEPT !.method = "POST"], startDate, endDate, t)
  IN IF ~isValid(MomentOfDate(q.start, t)) \/ ~isValid(MomentOfDate(q.end, t))
       THEN Respond(q, 400,
                    [error |-> "Invalid date format. Use YYYY-MM-DD format."])
     ELSE IF isAfter(MomentOfDate(q.start, t), MomentOfDate(q.end, t))
       THEN Respond(q, 400,
                    [error |-> "Start date cannot be after end date."])
     ELSE fetchApiData(q)

\* builds v1, v2: app.get("/trigger-report") up to its first await
getTriggerReport_v1(r, startDate, endDate, t) ==
  fetchApiData(ResolveDates([r EXCEPT !.method = "GET"], startDate, endDate, t))

\* build v3: app.post("/trigger-report") up to its first await
postTriggerReport(r) == fetchApiData([r EXCEPT !.method = "POST"])

\* build v3: app.get("/trigger-report") up to its first await
getTriggerReport(r) == fetchApiData([r EXCEPT !.method = "GET"])

----------------------------------------------------------------------------
(* Mail transport configuration *)

\* process.env[name] holds a non-empty string
IsSet(env, name) == name \in DOMAIN env /\ env[name] # ""

\* parseInt(text) of the texts the environment is given
parseInt(text) ==
  CASE text = "465" -> 465
    [] text = "587" -> 587
    [] text = "25" -> 25
    [] text = "2525" -> 2525
    [] OTHER -> NaN

\* NODE_ENV === "production" || RAILWAY_ENVIRONMENT, as a condition
isProduction(env) ==
  \/ "NODE_ENV" \in DOMAIN env /\ env["NODE_ENV"] = "production"
  \/ IsSet(env, "RAILWAY_ENVIRONMENT")

\* the port and secure options of emailConfig
emailConfig(env) ==
  [port |-> IF IsSet(env, "SMTP_PORT") THEN parseInt(env["SMTP_PORT"])
            ELSE IF isProduction(env) THEN 465 ELSE 587,
   secure |-> IF isProduction(env) THEN TRUE ELSE FALSE]

----------------------------------------------------------------------------
(* Start-up *)

\* the process before app.listen() has bound the port
NoServer ==
  [listening |-> FALSE, verify |-> "none", returned |-> Undefined,
   up |-> TRUE]

\* the callback of app.listen(PORT, ...): it runs once the port is bound;
\* build v3 ends it with `await verifyEmailConnection()`
listenCallback(s, v3) ==
  [s EXCEPT !.listening = TRUE,
            !.verify = IF v3 THEN "pending" ELSE "none"]

\* verifyEmailConnection: transporter.verify() resolved
verifyResolved(s) == [s EXCEPT !.verify = "ready", !.returned = TRUE]

\* the rejection leaves the function and the callback: an unhandled
\* rejection ends the process
verifyRejected_rethrow(s, message) ==
  [s EXCEPT !.verify = "failed", !.up = FALSE]

\* verifyEmailConnection: transporter.verify() rejected, caught by the catch
verifyRejected(s, message) ==
  [s EXCEPT !.verify = "failed", !.returned = FALSE]

\* the process once start-up is over
Started(b) ==
  IF b = "v3" THEN verifyResolved(listenCallback(NoServer, TRUE))
              ELSE listenCallback(NoServer, FALSE)

----------------------------------------------------------------------------
(* Environment *)

Today == 10
\* the server runs in UTC (README: the daily trigger is a cron in UTC)
DeployZone == 0
\* two seconds before midnight in Argentina, 02:59:58 on the server
InitNow == Today * DayMs + 3 * HourMs - 2000

RToday == Rec(Today * DayMs + 8 * HourMs, Today * DayMs + 8 * HourMs,
              Today * DayMs + 8 * HourMs)
ROld == Rec(5 * DayMs, 5 * DayMs, 5 * DayMs)

Bodies ==
  {NullBody, EmptyBody, NoRecordsBody,
   Envelope(<<>>), Envelope(<<RToday, ROld>>), Envelope(<<RToday, NullItem>>),
   BareArray(<<RToday, ROld>>), BareArray(<<NullItem>>)}

DateInputs == {Undefined, Garbage, 2, Today}
FetchErrors == {"Request failed with status code 500"}
SendErrors == {"Connection timeout", "Invalid login"}
MessageIds == {"<id-a>", "<id-b>"}

----------------------------------------------------------------------------
(* State *)

Reqs == 1..MaxReqs

NoProbe == [pc |-> "off"]

Init ==
  /\ build \in Builds
  /\ now = InitNow
  /\ tz = DeployZone
  /\ reqs = [i \in Reqs |-> NoReq]
  /\ probe = NoProbe
  /\ server = Started(build)

\* requests reach the handlers of a listening process, and take the slots
\* in order
Arrives(i) ==
  /\ server.listening /\ server.up
  /\ reqs[i].method = "NONE"
  /\ \A j \in DOMAIN reqs : j < i => reqs[j].method # "NONE"

Triggers == {j \in DOMAIN reqs : reqs[j].method \in {"POST", "GET"}}

HealthRequest(i) ==
  /\ Arrives(i)
  /\ reqs' = [reqs EXCEPT ![i] = health(reqs[i], now)]
  /\ UNCHANGED <<build, now, tz, probe, server>>

\* POST /trigger-report with startDate and endDate among `dates`
PostTriggerWith(i, dates) ==
  /\ Arrives(i)
  /\ \/ /\ build = "v3"
        /\ reqs' = [reqs EXCEPT ![i] = postTriggerReport(reqs[i])]
     \/ /\ build # "v3"
        /\ \E sd \in dates, ed \in dates :
             reqs' = [reqs EXCEPT ![i] =
                        postTriggerReport_v1(reqs[i], sd, ed, now)]
  /\ UNCHANGED <<build, now, tz, probe, server>>

PostTrigger(i) ==
  /\ Cardinality(Triggers) < MaxTriggers
  /\ PostTriggerWith(i, DateInputs)

\* GET /trigger-report with startDate and endDate among `dates`
GetTriggerWith(i, dates) ==
  /\ Arrives(i)
  /\ \/ /\ build = "v3"
        /\ reqs' = [reqs EXCEPT ![i] = getTriggerReport(reqs[i])]
     \/ /\ build # "v3"
        /\ \E sd \in dates, ed \in dates :
             reqs' = [reqs EXCEPT ![i] =
                        getTriggerReport_v1(reqs[i], sd, ed, now)]
  /\ UNCHANGED <<build, now, tz, probe, server>>

GetTrigger(i) ==
  /\ Cardinality(Triggers) < MaxTriggers
  /\ GetTriggerWith(i, DateInputs)

\* the clock readings a synchronous run may take after one taken at t
LaterReadings(t) ==
  {t} \cup IF t < InitNow + MaxTicks * TickMs THEN {t + TickMs} ELSE {}

\* axios.get resolved with response.data = apiData, one of `bodies`
UpstreamRespondsWith(i, bodies) ==
  /\ reqs[i].pc = "fetch"
  /\ \E apiData \in bodies, t2 \in LaterReadings(now) :
       /\ reqs' = [reqs EXCEPT ![i] =
                     LET r == [reqs[i] EXCEPT !.upstream = "ok",
                                              !.received = apiData]
                     IN IF build = "v3"
                          THEN executeReportWorkflow(r, apiData, now, t2)
                          ELSE executeReportWorkflow_v1(r, apiData,
                                                        build = "v2", now, t2)]
       /\ now' = t2
  /\ UNCHANGED <<build, tz, probe, server>>

UpstreamResponds(i) == UpstreamRespondsWith(i, Bodies)

\* axios.get rejected
UpstreamFails(i) ==
  /\ reqs[i].pc = "fetch"
  /\ \E msg \in FetchErrors :
       reqs' = [reqs EXCEPT ![i] =
                  fetchApiDataRejected([reqs[i] EXCEPT !.upstream = "failed"],
                                       msg)]
  /\ UNCHANGED <<build, now, tz, probe, server>>

\* variant: sendEmail is not awaited, the handler answers at once
Settle_noAwait(r) ==
  IF r.method = "CALL" THEN r ELSE triggerRespond(r, build = "v3")

\* const emailResult = await sendEmail(...): the workflow goes on once
\* sendEmail has resolved or rejected; a direct call is left with its outcome
Settle(r) ==
  IF r.method = "CALL" THEN r
  ELSE IF r.mail.pc \in {"resolved", "rejected"}
    THEN triggerRespond(r, build = "v3")
  ELSE r

\* transporter.sendMail resolved, info.messageId being one of `ids`
SendMailSucceedsWith(i, ids) ==
  /\ reqs[i].pc = "mail"
  /\ reqs[i].mail.pc = "sendMail"
  /\ \E id \in ids :
       reqs' = [reqs EXCEPT ![i] =
                  Settle([reqs[i] EXCEPT
                            !.mail = sendMailResolved(@, id),
                            !.trace = Append(@, "sent")])]
  /\ UNCHANGED <<build, now, tz, probe, server>>

SendMailSucceeds(i) == SendMailSucceedsWith(i, MessageIds)

\* transporter.sendMail rejected, error.message being one of `msgs`
SendMailFailsWith(i, msgs) ==
  /\ reqs[i].pc = "mail"
  /\ reqs[i].mail.pc = "sendMail"
  /\ \E msg \in msgs :
       reqs' = [reqs EXCEPT ![i] =
                  Settle([reqs[i] EXCEPT
                            !.mail = IF build = "v3"
                                       THEN sendMailRejected(@, msg, now)
                                       ELSE sendMailRejected_v1(@, msg, now),
                            !.trace = Append(@, "failed")])]
  /\ UNCHANGED <<build, now, tz, probe, server>>

SendMailFails(i) == SendMailFailsWith(i, SendErrors)

\* the setTimeout callback runs, no earlier than its deadline
TimerFires(i) ==
  /\ reqs[i].pc = "mail"
  /\ reqs[i].mail.pc = "timer"
  /\ now >= reqs[i].mail.deadline
  /\ reqs' = [reqs EXCEPT ![i] =
                [reqs[i] EXCEPT !.mail = timerFired(@, now),
                                !.trace = Append(@, "sendMail")]]
  /\ UNCHANGED <<build, now, tz, probe, server>>

TimerPending ==
  \E i \in DOMAIN reqs :
    reqs[i].mail.pc = "timer" /\ reqs[i].mail.deadline > now

\* time passes; observation stops MaxTicks ticks after the start, or, with
\* `untilTimers`, once no timer is pending after that
TickWhile(untilTimers) ==
  /\ \/ now < InitNow + MaxTicks * TickMs
     \/ untilTimers /\ TimerPending
  /\ now' = now + TickMs
  /\ UNCHANGED <<build, tz, reqs, probe, server>>

Tick == TickWhile(TRUE)

Next ==
  \/ \E i \in Reqs : HealthRequest(i)
  \/ \E i \in Reqs : PostTrigger(i)
  \/ \E i \in Reqs : GetTrigger(i)
  \/ \E i \in Reqs : UpstreamResponds(i)
  \/ \E i \in Reqs : UpstreamFails(i)
  \/ \E i \in Reqs : SendMailSucceeds(i)
  \/ \E i \in Reqs : SendMailFails(i)
  \/ \E i \in Reqs : TimerFires(i)
  \/ Tick

Spec == Init /\ [][Next]_vars

----------------------------------------------------------------------------
(* The mailer on its own: one direct call sendEmail(reportContent, retries) *)

InitMailer ==
  /\ build = "v3"
  /\ now = InitNow
  /\ tz = DeployZone
  /\ probe = NoProbe
  /\ server = Started(build)
  /\ \E retries \in 0..MaxRetries :
       reqs = [i \in Reqs |->
                 IF i = 1
                   THEN [NoReq EXCEPT !.method = "CALL", !.pc = "mail",
                                      !.mail = sendEmail(NoReport, retries,
                                                         InitNow)]
                   ELSE NoReq]

NextMailer ==
  \/ \E i \in Reqs : SendMailSucceeds(i)
  \/ \E i \in Reqs : SendMailFails(i)
  \/ \E i \in Reqs : TimerFires(i)
  \/ Tick

SpecMailer == InitMailer /\ [][NextMailer]_vars

----------------------------------------------------------------------------
(* Trigger requests only, several in flight together *)

PairDates == {Undefined, Garbage}
PairBodies == {Envelope(<<>>), Envelope(<<RToday, ROld>>)}
\* each message gets an id of its own
PairMessageId(i) == "<id-" \o ToString(i) \o ">"
PairSendErrors == {"Connection timeout"}

InitPair ==
  /\ build \in Builds
  /\ now = InitNow
  /\ tz = DeployZone
  /\ reqs = [i \in 1..MaxPairReqs |-> NoReq]
  /\ probe = NoProbe
  /\ server = Started(build)

NextPair ==
  \/ \E i \in DOMAIN reqs : PostTriggerWith(i, PairDates)
  \/ \E i \in DOMAIN reqs : GetTriggerWith(i, PairDates)
  \/ \E i \in DOMAIN reqs : UpstreamRespondsWith(i, PairBodies)
  \/ \E i \in DOMAIN reqs : UpstreamFails(i)
  \/ \E i \in DOMAIN reqs : SendMailSucceedsWith(i, {PairMessageId(i)})
  \/ \E i \in DOMAIN reqs : SendMailFailsWith(i, PairSendErrors)
  \/ \E i \in DOMAIN reqs : TimerFires(i)
  \/ TickWhile(FALSE)

SpecPair == InitPair /\ [][NextPair]_vars

----------------------------------------------------------------------------
(* Start-up and the first requests *)

VerifyErrors == {"connect ETIMEDOUT", "Invalid login"}

InitBoot ==
  /\ build \in Builds
  /\ now = InitNow
  /\ tz = DeployZone
  /\ reqs = [i \in 1..MaxBootReqs |-> NoReq]
  /\ probe = NoProbe
  /\ server = NoServer

\* the port is bound and the listen callback runs
Listens ==
  /\ ~server.listening
  /\ server' = listenCallback(server, build = "v3")
  /\ UNCHANGED <<build, now, tz, reqs, probe>>

VerifySucceeds ==
  /\ server.verify = "pending"
  /\ server' = verifyResolved(server)
  /\ UNCHANGED <<build, now, tz, reqs, probe>>

VerifyFails ==
  /\ server.verify = "pending"
  /\ \E message \in VerifyErrors : server' = verifyRejected(server, message)
  /\ UNCHANGED <<build, now, tz, reqs, probe>>

NextBoot ==
  \/ Listens
  \/ VerifySucceeds
  \/ VerifyFails
  \/ \E i \in DOMAIN reqs : HealthRequest(i)
  \/ \E i \in DOMAIN reqs : PostTriggerWith(i, PairDates)
  \/ \E i \in DOMAIN reqs : GetTriggerWith(i, PairDates)
  \/ \E i \in DOMAIN reqs : UpstreamRespondsWith(i, PairBodies)
  \/ \E i \in DOMAIN reqs : UpstreamFails(i)
  \/ \E i \in DOMAIN reqs : SendMailSucceedsWith(i, {PairMessageId(i)})
  \/ \E i \in DOMAIN reqs : SendMailFailsWith(i, PairSendErrors)
  \/ \E i \in DOMAIN reqs : TimerFires(i)
  \/ TickWhile(FALSE)

SpecBoot == InitBoot /\ [][NextBoot]_vars

----------------------------------------------------------------------------
(* Trigger requests whose upstream GET, sendMail calls and timers all come
   to an end *)

InitLive ==
  /\ build \in Builds
  /\ now = InitNow
  /\ tz = DeployZone
  /\ reqs = [i \in 1..MaxLiveReqs |-> NoReq]
  /\ probe = NoProbe
  /\ server = Started(build)

\* the GET of request i returns or fails
UpstreamSettles(i) ==
  UpstreamRespondsWith(i, PairBodies) \/ UpstreamFails(i)

\* the sendMail call of request i returns or fails
SendMailSettles(i) ==
  \/ SendMailSucceedsWith(i, {PairMessageId(i)})
  \/ SendMailFailsWith(i, PairSendErrors)

NextLive ==
  \/ \E i \in DOMAIN reqs : PostTriggerWith(i, DateInputs)
  \/ \E i \in DOMAIN reqs : GetTriggerWith(i, PairDates)
  \/ \E i \in DOMAIN reqs : UpstreamSettles(i)
  \/ \E i \in DOMAIN reqs : SendMailSettles(i)
  \/ \E i \in DOMAIN reqs : TimerFires(i)
  \/ Tick

\* time passes, and every pending GET, sendMail call and timer comes to an
\* end
Fairness ==
  /\ WF_vars(Tick)
  /\ \A i \in 1..MaxLiveReqs :
       /\ WF_vars(UpstreamSettles(i))
       /\ WF_vars(SendMailSettles(i))
       /\ WF_vars(TimerFires(i))

SpecLive == InitLive /\ [][NextLive]_vars /\ Fairness

----------------------------------------------------------------------------
(* The module's initialisation under an environment *)

\* process.env: the variables that are set, each with its text
Environments ==
  LET NotSet == "(not set)"
      Env(all) == [name \in {n \in DOMAIN all : all[n] # NotSet} |->
                     all[name]]
  IN {Env([NODE_ENV |-> nodeEnv, RAILWAY_ENVIRONMENT |-> railway,
           SMTP_PORT |-> port, SMTP_SECURE |-> secure]) :
        nodeEnv \in {NotSet, "production", "development"},
        railway \in {NotSet, "production", ""},
        port \in {NotSet, "465", "587", "2525"},
        secure \in {NotSet, "true", "false"}}

InitConfig ==
  /\ build = "v3"
  /\ now = InitNow
  /\ tz = DeployZone
  /\ reqs = [i \in Reqs |-> NoReq]
  /\ server = NoServer
  /\ \E env \in Environments : probe = [pc |-> "env", env |-> env]

\* the module is loaded: emailConfig is evaluated
LoadsConfig ==
  /\ probe.pc = "env"
  /\ probe' = [pc |-> "emailConfig", env |-> probe.env,
               out |-> emailConfig(probe.env)]
  /\ UNCHANGED <<build, now, tz, reqs, server>>

SpecConfig == InitConfig /\ [][LoadsConfig]_vars

----------------------------------------------------------------------------
(* The data functions on their own: one direct call of a filter, of          *)
(* analyzeData or of generateReport on a dataset drawn in the initial state *)

\* all sequences over S of length at most n
RECURSIVE SeqsUpTo(_, _)
SeqsUpTo(S, n) ==
  IF n = 0 THEN {<<>>}
  ELSE LET shorter == SeqsUpTo(S, n - 1)
       IN shorter \cup {Append(q, x) : q \in shorter, x \in S}

Noon == Today * DayMs + 12 * HourMs

\* values of a date field
DateValues ==
  {Undefined, Null, Garbage,
   (Today - 1) * DayMs + 23 * HourMs,      \* late on the day before
   Today * DayMs,                          \* 00:00:00 today
   Today * DayMs + 8 * HourMs}             \* today, in the morning

DatedRecs ==
  {Rec(d, d, d) : d \in DateValues}
    \cup {Rec(Undefined, Undefined, Today * DayMs + 8 * HourMs)}

\* a record of today for the station idempresa, all five names being `name`
Named(name, idempresa, precio) ==
  Priced(Rec(Noon, Noon, Noon), name, name, name, name, name,
         idempresa, precio)

GroupedRecs ==
  {Named("Nafta", 1, 100), Named("Diesel", 1, 0), Named("Diesel", 2, 100),
   Named("", Undefined, 100), Named("9", 2, Undefined)}

LocalityNames ==
  <<"Rosario", "Salta", "Tandil", "Junin", "Lujan", "Merlo", "Moron",
    "Pilar", "Quilmes", "Zarate", "Azul", "Bragado", "Campana", "Dolores">>

\* n records of today over the first k localities, taken in turn
Spread(n, k) ==
  [i \in 1..n |->
     Priced(Rec(Noon, Noon, Noon), IF i % 3 = 0 THEN "" ELSE "Nafta",
            "Buenos Aires", "YPF", "YPF",
            LocalityNames[((i - 1) % k) + 1], i, 100)]

\* the same, the records beyond the first k going to the localities seen
\* last
SpreadLate(n, k) ==
  [i \in 1..n |->
     [Spread(n, k)[i] EXCEPT
        !.localidad = LocalityNames[IF i <= k THEN i
                                    ELSE k - ((i - k - 1) % k)]]]

SpreadSets ==
  {Spread(n, k) : n \in 0..MaxSpread,
                  k \in {1, TopLocalities, TopLocalities + 1}}
    \cup {SpreadLate(n, TopLocalities + 1) : n \in 0..MaxSpread}

MalformedBodies == {NullBody, EmptyBody, NoRecordsBody}

DatedBodies ==
  MalformedBodies
    \cup {Envelope(q) : q \in SeqsUpTo(DatedRecs, MaxDated)}
    \cup {BareArray(q) : q \in SeqsUpTo(DatedRecs, MaxDated)}

GroupedBodies ==
  {Envelope(q) : q \in SeqsUpTo(GroupedRecs, MaxGrouped) \cup SpreadSets}

\* startDate, endDate as the handlers hand them to the range filter
Periods ==
  {<<Today - 1, Today>>, <<Today, Today>>, <<Today, Today + 1>>,
   <<Garbage, Today>>}

\* server-local readings of the clock
ProbeClocks == {Today * DayMs, Today * DayMs + HourMs, Noon}
ServerZones == {0, -3}

Ready(data, period) ==
  [pc |-> "ready", data |-> data, startDate |-> period[1],
   endDate |-> period[2]]

InitData ==
  /\ build \in Builds
  /\ reqs = [i \in Reqs |-> NoReq]
  /\ server = Started(build)
  /\ \/ /\ now \in ProbeClocks
        /\ tz \in ServerZones
        /\ \E data \in DatedBodies, period \in Periods :
             probe = Ready(data, period)
     \/ /\ now = Noon
        /\ tz = DeployZone
        /\ \E data \in GroupedBodies : probe = Ready(data, <<Today, Today>>)

Returned(fn, out) == [probe EXCEPT !.pc = fn] @@ [out |-> out]

\* filterDataByDate(data, startDate, endDate)
CallFilterDataByDate ==
  /\ probe.pc = "ready"
  /\ build \in {"v1", "v2"}
  /\ probe' = Returned("filterDataByDate",
                IF build = "v1"
                  THEN filterDataByDate_v1(probe.data, probe.startDate,
                                           probe.endDate, now)
                  ELSE filterDataByDate_v2(probe.data, probe.startDate,
                                           probe.endDate, now))
  /\ UNCHANGED <<build, now, tz, reqs, server>>

\* filterTodayData(data)
CallFilterTodayData ==
  /\ probe.pc = "ready"
  /\ build \in {"v2", "v3"}
  /\ probe' = Returned("filterTodayData",
                IF build = "v2" THEN filterTodayData_v2(probe.data, now)
                ELSE filterTodayData(probe.data, now))
  /\ UNCHANGED <<build, now, tz, reqs, server>>

\* analyzeData(records) / analyzeData(records, records)
CallAnalyzeData ==
  /\ probe.pc = "ready"
  /\ build \in {"v2", "v3"}
  /\ probe.data.shape = "envelope"
  /\ ~HasNullItem(probe.data.records)
  /\ probe' = Returned("analyzeData",
                IF build = "v2" THEN analyzeData_v2(probe.data.records)
                ELSE analyzeData(probe.data.records,
                                 Items(probe.data.records)))
  /\ UNCHANGED <<build, now, tz, reqs, server>>

\* generateReport(apiData, startDate, endDate) / generateReport(apiData)
CallGenerateReport ==
  /\ probe.pc = "ready"
  /\ build \in {"v2", "v3"}
  /\ probe' = Returned("generateReport",
                IF build = "v2"
                  THEN generateReport_v2(probe.data, probe.startDate,
                                         probe.endDate, now)
                  ELSE generateReport(probe.data, now))
  /\ UNCHANGED <<build, now, tz, reqs, server>>

NextData ==
  \/ CallFilterDataByDate
  \/ CallFilterTodayData
  \/ CallAnalyzeData
  \/ CallGenerateReport

SpecData == InitData /\ [][NextData]_vars

----------------------------------------------------------------------------
(* Properties *)

Last(q) == q[Len(q)]
Range(q) == {q[k] : k \in 1..Len(q)}
Failures(m) == {k \in 1..Len(m.log) : ~m.log[k].ok}
Successes(m) == {k \in 1..Len(m.log) : m.log[k].ok}
IsTrigger(r) == r.method \in {"POST", "GET"}
Count(q, e) == Cardinality({k \in 1..Len(q) : q[k] = e})
Min(a, b) == IF a <= b THEN a ELSE b
IsDay(d) == d \notin {Undefined, Null, Garbage}

RECURSIVE SumGets(_), SumSends(_)
SumGets(n) == IF n = 0 THEN 0 ELSE reqs[n].gets + SumGets(n - 1)
SumSends(n) == IF n = 0 THEN 0 ELSE reqs[n].mail.sends + SumSends(n - 1)
TotalGets == SumGets(MaxReqs)
TotalSends == SumSends(MaxReqs)

\* C1: when the first k sendMail calls of sendEmail(_, N) fail and call k+1
\* succeeds (k < N), sendEmail has made exactly k+1 sendMail calls, it has
\* resolved with {success: true, messageId} of that call, and no sendMail
\* call follows the successful one.
C1_SuccessEndsTheLoop ==
  \A i \in Reqs :
    LET m == reqs[i].mail IN
      \A k \in Successes(m) :
        /\ k = Len(m.log)
        /\ k <= m.retries
        /\ \A j \in 1..(k - 1) : ~m.log[j].ok
        /\ m.sends = k
        /\ m.pc = "resolved"
        /\ m.result = [defined |-> TRUE, success |-> TRUE,
                       messageId |-> m.log[k].info]

\* two failures, then a success on the third and last attempt
C1_Witness ==
  \E i \in Reqs :
    LET m == reqs[i].mail IN
      /\ m.retries = 3
      /\ Len(m.log) = 3
      /\ Failures(m) = {1, 2}
      /\ m.sends = 3
      /\ m.pc = "resolved"
      /\ m.result.messageId = m.log[3].info

\* C2: when every sendMail call of sendEmail(_, N), N >= 1, fails, sendEmail
\* makes exactly N calls and then rejects with an error that reports N
\* attempts and carries the message of the N-th failure; it never resolves.
C2_ExhaustionRejects ==
  \A i \in Reqs :
    LET m == reqs[i].mail IN
      (m.retries >= 1 /\ Successes(m) = {}) =>
        /\ Len(m.log) <= m.retries
        /\ m.sends <= m.retries
        /\ m.pc # "resolved"
        /\ ~m.result.defined
        /\ (m.pc = "rejected") <=> (Len(m.log) = m.retries)
        /\ (m.pc = "rejected") =>
             /\ m.sends = m.retries
             /\ m.error = "Failed to send email after "
                          \o ToString(m.retries) \o " attempts: "
                          \o Last(m.log).info

\* three failures out of three, the last with another message than the first
C2_Witness ==
  \E i \in Reqs :
    LET m == reqs[i].mail IN
      /\ m.retries = 3
      /\ m.pc = "rejected"
      /\ m.sends = 3
      /\ m.log[1].info = "Connection timeout"
      /\ m.log[3].info = "Invalid login"
      /\ m.error = "Failed to send email after 3 attempts: Invalid login"

\* C3: after failed attempt n < retries the loop sets a wait of n * 2000 ms
\* and attempt n+1 starts only once that wait has elapsed; after the failed
\* final attempt there is no wait.
C3_LinearBackoff ==
  \A i \in Reqs :
    LET m == reqs[i].mail
        fired == IF m.pc = "timer" THEN Len(m.waits) - 1 ELSE Len(m.waits)
    IN m.retries >= 1 =>
        /\ Len(m.waits) = Min(Cardinality(Failures(m)), m.retries - 1)
        /\ \A n \in 1..Len(m.waits) : m.waits[n].ms = n * 2000
        /\ \A n \in 1..fired : m.waits[n].elapsed >= n * 2000
        /\ (m.pc = "timer") =>
             /\ m.attempt = Len(m.waits)
             /\ m.sends = m.attempt
             /\ Last(m.waits).elapsed = Undefined
             /\ m.deadline = m.setAt + m.attempt * 2000
        /\ (m.pc = "sendMail") =>
             /\ m.attempt = Len(m.waits) + 1
             /\ m.sends = m.attempt
        /\ (m.pc = "rejected") => Len(m.waits) = m.retries - 1

\* retries = 3, always failing: waits of 2 s and 4 s, 6 s or more in all
C3_Witness ==
  \E i \in Reqs :
    LET m == reqs[i].mail IN
      /\ m.retries = 3
      /\ m.pc = "rejected"
      /\ Len(m.waits) = 2
      /\ m.waits[1].ms = 2000
      /\ m.waits[2].ms = 4000
      /\ m.waits[1].elapsed + m.waits[2].elapsed >= 6000

StageRank(e) ==
  CASE e = "GET" -> 1
    [] e = "fetched" -> 2
    [] e = "filter" -> 3
    [] e = "render" -> 4
    [] e \in {"sendMail", "sent", "failed"} -> 5
    [] e = "respond" -> 6
    [] OTHER -> 0

\* C4: within one trigger request the stages run in the order fetch,
\* filter, render, send, respond: the GET completes before filtering, the
\* report is rendered before the first sendMail call, and the response is
\* written only after sendEmail has resolved or rejected.
C4_StagesInOrder ==
  \A i \in Reqs :
    LET r == reqs[i]
        tr == r.trace
    IN IsTrigger(r) =>
        /\ \A a \in 1..Len(tr), b \in 1..Len(tr) :
             (a < b /\ StageRank(tr[a]) # 0 /\ StageRank(tr[b]) # 0)
               => StageRank(tr[a]) <= StageRank(tr[b])
        /\ \A e \in {"GET", "fetched", "filter", "render", "respond"} :
             Count(tr, e) <= 1
        /\ (r.pc = "fetch") => (tr = <<"GET">>)
        /\ (r.mail.sends > 0) =>
             /\ r.report # NoReport
             /\ "render" \in Range(tr)
        /\ (r.status # 0) =>
             /\ r.pc = "done"
             /\ Last(tr) = "respond"
             /\ r.mail.pc \in {"idle", "resolved", "rejected"}

\* a trigger that went through every stage
C4_Witness ==
  \E i \in Reqs :
    /\ IsTrigger(reqs[i])
    /\ reqs[i].status = 200
    /\ reqs[i].trace = <<"GET", "fetched", "filter", "render", "sendMail",
                         "sent", "respond">>

\* C5: when the upstream GET of a trigger fails, the GET is not retried,
\* nothing is filtered or rendered, no sendMail call is made and the
\* request is answered with 500.
C5_FetchFailureAborts ==
  \A i \in Reqs :
    LET r == reqs[i] IN
      (r.upstream = "failed") =>
        /\ r.gets = 1
        /\ r.filtered = Undefined
        /\ r.report = NoReport
        /\ r.mail = NoMail
        /\ r.pc = "done"
        /\ r.status = 500
        /\ r.trace = <<"GET", "error", "respond">>

C5_Witness ==
  \E i \in Reqs :
    /\ reqs[i].upstream = "failed"
    /\ reqs[i].status = 500
    /\ reqs[i].resp.details
         = "Failed to fetch API data: Request failed with status code 500"

\* the resolved period of a request is inverted or not a pair of dates
BadPeriod(r) ==
  /\ r.resolved
  /\ \/ r.start = Garbage
     \/ r.end = Garbage
     \/ r.start > r.end

\* C6: a POST /trigger-report whose resolved start date is after its
\* resolved end date, or has an unparseable date, is answered with 400 and
\* makes no upstream GET and no sendMail call.
C6_PostRejectsBadPeriod ==
  \A i \in Reqs :
    LET r == reqs[i] IN
      (r.method = "POST" /\ BadPeriod(r)) =>
        /\ r.pc = "done"
        /\ r.status = 400
        /\ "error" \in DOMAIN r.resp
        /\ r.gets = 0
        /\ r.upstream = "none"
        /\ r.mail = NoMail
        /\ r.trace = <<"respond">>

\* startDate after endDate
C6_Witness ==
  \E i \in Reqs :
    /\ reqs[i].method = "POST"
    /\ reqs[i].startDate = Today
    /\ reqs[i].endDate = 2
    /\ reqs[i].status = 400
    /\ reqs[i].resp = [error |-> "Start date cannot be after end date."]

\* C7: a GET /trigger-report whose startDate is after its endDate, or has an
\* unparseable date, is answered with 400 and makes no upstream GET and no
\* sendMail call.
C7_GetRejectsBadPeriod ==
  \A i \in Reqs :
    LET r == reqs[i] IN
      (r.method = "GET" /\ BadPeriod(r)) =>
        /\ r.pc = "done"
        /\ r.status = 400
        /\ r.gets = 0
        /\ r.mail = NoMail

\* C8: a trigger is answered with success only if a sendMail call of that
\* request succeeded, and then with emailSent = true and the messageId of
\* that call; a trigger none of whose sendMail calls succeeded is answered
\* with a failure.
C8_NoPartialSuccess ==
  \A i \in Reqs :
    LET r == reqs[i] IN
      (IsTrigger(r) /\ r.pc = "done") =>
        /\ r.status \in {200, 400, 500}
        /\ (r.status = 200) =>
             /\ Successes(r.mail) # {}
             /\ r.resp.result.success = TRUE
             /\ r.resp.result.emailSent = TRUE
             /\ \E k \in Successes(r.mail) :
                  r.resp.result.messageId = r.mail.log[k].info
        /\ (Successes(r.mail) = {}) =>
             /\ r.status \in {400, 500}
             /\ "error" \in DOMAIN r.resp
             /\ "result" \notin DOMAIN r.resp

\* a success answered after an earlier failed attempt of the same request
C8_Witness ==
  \E i \in Reqs :
    /\ IsTrigger(reqs[i])
    /\ reqs[i].status = 200
    /\ Failures(reqs[i].mail) # {}
    /\ reqs[i].resp.result.emailSent
    /\ reqs[i].resp.result.messageId = Last(reqs[i].mail.log).info

\* C9: an error raised in a pipeline stage of a trigger is answered with 500
\* and {error, details}, details being the raised error's message; it never
\* yields a 200 and never leaves the request unanswered.
C9_RaisedErrorIs500 ==
  \A i \in Reqs :
    LET r == reqs[i] IN
      IsTrigger(r) =>
        /\ (r.upstream = "failed") => r.raised # ""
        /\ (r.mail.pc = "rejected") => r.raised = r.mail.error
        /\ (r.raised # "") =>
             /\ r.pc = "done"
             /\ r.status = 500
             /\ r.resp = [error |-> "Failed to execute report workflow",
                          details |-> r.raised]

\* a failure of the render stage
C9_Witness ==
  \E i \in Reqs :
    /\ IsTrigger(reqs[i])
    /\ reqs[i].trace = <<"GET", "fetched", "filter", "render", "error",
                         "respond">>
    /\ reqs[i].raised # ""
    /\ reqs[i].status = 500

\* C10: GET /health is answered at once with 200 {status: "OK", timestamp,
\* service} and causes no upstream GET and no sendMail call, whatever the
\* other requests are doing.
C10_HealthHasNoEffect ==
  [][\A i \in Reqs :
       (reqs[i].method = "NONE" /\ reqs'[i].method = "HEALTH") =>
         /\ reqs'[i].status = 200
         /\ reqs'[i].resp = [status |-> "OK", timestamp |-> now,
                             service |-> "API Report Mailer"]
         /\ reqs'[i].gets = 0
         /\ reqs'[i].mail = NoMail
         /\ TotalGets' = TotalGets
         /\ TotalSends' = TotalSends
         /\ \A j \in Reqs \ {i} : reqs'[j] = reqs[j]]_vars

\* a health check answered while a trigger is in flight
C10_Witness ==
  \E i \in Reqs, j \in Reqs :
    /\ i < j
    /\ IsTrigger(reqs[i])
    /\ reqs[i].pc \in {"fetch", "mail"}
    /\ reqs[j].method = "HEALTH"
    /\ reqs[j].status = 200


----------------------------------------------------------------------------
(* Properties of trigger requests in flight together (SpecPair) *)

Slots == DOMAIN reqs
Succeeded == {i \in Slots : reqs[i].status = 200}

RECURSIVE SumOver(_, _)
SumOver(f, S) ==
  IF S = {} THEN 0
  ELSE LET i == CHOOSE j \in S : TRUE IN f[i] + SumOver(f, S \ {i})

Delivered == [i \in Slots |-> Cardinality(Successes(reqs[i].mail))]
Gets == [i \in Slots |-> reqs[i].gets]

\* C19: a trigger that passed validation has issued exactly one upstream
\* GET, a trigger answered 200 has exactly one delivered email; with N
\* triggers answered 200, N emails in all have been delivered and N GETs
\* were issued by them.
C19_OneGetOneEmailPerTrigger ==
  /\ \A i \in Slots :
       LET r == reqs[i] IN
         /\ (IsTrigger(r) /\ r.status # 400) => r.gets = 1
         /\ r.status = 400 => r.gets = 0 /\ Delivered[i] = 0
         /\ r.status = 200 => Delivered[i] = 1
         /\ Delivered[i] <= 1
  /\ SumOver(Delivered, Slots) = Cardinality(Succeeded)
  /\ SumOver(Gets, Succeeded) = Cardinality(Succeeded)

\* two triggers answered 200, the second email after a failed attempt
C19_Witness ==
  /\ Cardinality(Succeeded) >= 2
  /\ SumOver(Delivered, Slots) = Cardinality(Succeeded)
  /\ \E i \in Succeeded : reqs[i].mail.sends = 2
  /\ \E i, j \in Succeeded :
       reqs[i].resp.result.messageId # reqs[j].resp.result.messageId

\* the calendar days, at UTC-3, of the clock readings taken so far
DaysSoFar ==
  {(InitNow + k * TickMs - tz * HourMs - 3 * HourMs) \div DayMs :
     k \in {n \in 0..(MaxTicks + 1) : InitNow + n * TickMs <= now}}

\* how many records of `body` are dated on `day`, by the field `stamp`
CountOn(body, stamp, day) ==
  Cardinality({k \in 1..Len(body.records) :
                 body.records[k][stamp] \div DayMs = day})

\* how many records of `body` have `fecha` from 00:00 of start to 00:00 of end
CountWithin(body, start, end) ==
  IF IsDay(start) /\ IsDay(end)
    THEN Cardinality({k \in 1..Len(body.records) :
                        /\ start * DayMs <= body.records[k].fecha
                        /\ body.records[k].fecha <= end * DayMs})
    ELSE 0

\* the counts of request r come from the body that r itself received
OwnCounts(r) ==
  CASE build = "v3" ->
         /\ \E day \in DaysSoFar :
              r.filtered = CountOn(r.received, "fecha_vigencia", day)
         /\ r.report # NoReport =>
              \E day \in DaysSoFar :
                r.report.totalRecords
                  = CountOn(r.received, "fecha_vigencia", day)
    [] build = "v2" ->
         /\ r.filtered = CountWithin(r.received, r.start, r.end)
         /\ r.report # NoReport =>
              r.report.totalRecords = CountOn(r.received, "fecha", Today)
    [] build = "v1" ->
         /\ r.filtered = 1
         /\ r.report # NoReport => r.report.totalRecords = 1

\* the answer of request i carries its own count, period and message id
OwnAnswer(i) ==
  LET r == reqs[i] IN
    r.status = 200 =>
      /\ r.resp.result.messageId = PairMessageId(i)
      /\ IF build = "v3"
           THEN r.resp.result.todayRecords = r.filtered
           ELSE /\ r.resp.result.totalRecords = r.filtered
                /\ r.resp.period = [startDate |-> r.start, endDate |-> r.end]

Isolated ==
  \A i \in Slots :
    /\ reqs[i].filtered # Undefined => OwnCounts(reqs[i])
    /\ OwnAnswer(i)

\* a step changes the activation of one request at most
OneRequestAtATime ==
  \A i, j \in Slots :
    (reqs'[i] # reqs[i] /\ reqs'[j] # reqs[j]) => i = j

\* C20: with several triggers in flight together, the counts, the report
\* and the answer of each request come from the body that request received,
\* its own period and its own sendMail outcome, never from another
\* request's, and no step of one request changes another request.
C20_RequestsAreIsolated == []Isolated /\ [][OneRequestAtATime]_vars

\* two requests answered 200 that received different bodies and report
\* different counts
C20_Witness ==
  \E i, j \in Slots :
    /\ reqs[i].status = 200 /\ reqs[j].status = 200
    /\ reqs[i].received # reqs[j].received
    /\ reqs[i].filtered # reqs[j].filtered
    /\ reqs[i].report.totalRecords # reqs[j].report.totalRecords
    /\ reqs[i].resp.result.messageId # reqs[j].resp.result.messageId

----------------------------------------------------------------------------
(* Properties of the data functions (SpecData) *)

Called(fn) == probe.pc = fn

\* C11: for every upstream body whose envelope is malformed or missing (null,
\* no result, result.records not an array) the range filter, the today
\* filter and generateReport return an empty result (zero records) and do
\* not throw.
C11_MalformedEnvelopeIsEmpty ==
  probe.pc \in {"filterDataByDate", "filterTodayData", "generateReport"}
    /\ probe.data \in MalformedBodies
  => /\ probe.out.ok
     /\ IF Called("generateReport")
          THEN probe.out.val.totalRecords = 0
          ELSE probe.out.val.isArray /\ probe.out.val.items = <<>>

\* the group lists of an analysis, by the field they group on
Dimensions(analysis) ==
  [field \in {"producto", "provincia", "empresabandera"}
            \cup (IF "byGasStation" \in DOMAIN analysis
                    THEN {"empresa", "localidad"} ELSE {}) |->
     CASE field = "producto" -> analysis.byProduct
       [] field = "provincia" -> analysis.byProvince
       [] field = "empresabandera" -> analysis.byFlagCompany
       [] field = "empresa" -> analysis.byGasStation
       [] field = "localidad" -> analysis.byLocality]

RECURSIVE SumCounts(_)
SumCounts(list) ==
  IF list = <<>> THEN 0 ELSE Head(list).count + SumCounts(Tail(list))

\* how many of the records carry `name` in `field`, a missing or empty value
\* reading as "Sin especificar"
Carrying(records, field, name) ==
  Cardinality({i \in 1..Len(records) :
                 \/ records[i][field] = name
                 \/ records[i][field] = "" /\ name = SinEspecificar})

NamesOf(records, field) ==
  {IF records[i][field] = "" THEN SinEspecificar ELSE records[i][field] :
     i \in 1..Len(records)}

Analysed ==
  Called("analyzeData") /\ probe.out.ok /\ probe.out.val.totalRecords > 0

\* C12 as stated: for every non-empty today subset and every grouping
\* dimension (product, province, station, brand, locality) the group counts
\* of the dimension add up to totalRecords.
C12_EveryDimensionSumsToTotal ==
  Analysed =>
    LET byField == Dimensions(probe.out.val)
    IN \A field \in DOMAIN byField :
         SumCounts(byField[field]) = probe.out.val.totalRecords

\* C12 amended: the counts of product, province, station and brand add up to
\* totalRecords, every value has one group holding exactly the records that
\* carry it, missing and empty values being counted under "Sin especificar";
\* byLocality keeps the 10 largest groups only, so its counts add up to
\* totalRecords exactly when at most 10 distinct localities occur, and to
\* less otherwise.
C12_CountsSumToTotal ==
  Analysed =>
    LET byField == Dimensions(probe.out.val)
        records == probe.data.records
        total == probe.out.val.totalRecords
    IN \A field \in DOMAIN byField :
         LET list == byField[field]
         IN /\ \A m, n \in 1..Len(list) : list[m].name = list[n].name => m = n
            /\ \A n \in 1..Len(list) :
                 /\ list[n].count = Carrying(records, field, list[n].name)
                 /\ list[n].count > 0
            /\ IF field = "localidad"
                 THEN /\ SumCounts(list) <= total
                      /\ SumCounts(list) = total
                           <=> Cardinality(NamesOf(records, field))
                                 <= TopLocalities
                 ELSE /\ SumCounts(list) = total
                      /\ {list[n].name : n \in 1..Len(list)}
                           = NamesOf(records, field)

\* a report over more than 10 localities in which some records have no product
C12_Witness ==
  /\ Analysed
  /\ build = "v3"
  /\ Len(probe.out.val.byLocality) = TopLocalities
  /\ SumCounts(probe.out.val.byLocality) < probe.out.val.totalRecords
  /\ \E n \in 1..Len(probe.out.val.byProduct) :
       /\ probe.out.val.byProduct[n].name = SinEspecificar
       /\ probe.out.val.byProduct[n].count > 1

\* where `name` is first seen in `field` of the records
FirstIndex(records, field, name) ==
  LET at == {i \in 1..Len(records) :
               \/ records[i][field] = name
               \/ records[i][field] = "" /\ name = SinEspecificar}
  IN CHOOSE i \in at : \A j \in at : i <= j

Reported == Called("generateReport") /\ probe.out.ok

\* C13: every group list of the report is ordered by count descending, and
\* two groups with equal counts appear in the order in which their values
\* were first seen in the records.
C13_ListsOrderedByCount ==
  Reported =>
    LET byField == Dimensions(probe.out.val.analysis)
    IN \A field \in DOMAIN byField :
         LET list == byField[field]
         IN \A m, n \in 1..Len(list) :
              m < n =>
                /\ list[m].count >= list[n].count
                /\ list[m].count = list[n].count =>
                     FirstIndex(probe.data.records, field, list[m].name)
                       < FirstIndex(probe.data.records, field, list[n].name)

Filtered ==
  /\ probe.pc \in {"filterDataByDate", "filterTodayData"}
  /\ probe.out.ok
  /\ probe.out.val.isArray

\* the date field a filter reads from a record: the first of its candidates
\* that holds a value
DateField(item) ==
  IF Called("filterTodayData")
    THEN IF build = "v3" THEN item.fecha_vigencia ELSE item.fecha
  ELSE IF build = "v2"
    THEN IF item.fecha \notin {Undefined, Null} THEN item.fecha ELSE item.date
  ELSE item.date

Undated(item) == DateField(item) \in {Undefined, Null, Garbage}

\* C15: a record that has no date field, or an unparseable one, is in no
\* filter result, whatever the dataset, the range and the current time.
C15_UndatedNeverMatches ==
  Filtered =>
    \A k \in 1..Len(probe.out.val.items) : ~Undated(probe.out.val.items[k])

\* the range filter ran over the records of a well-formed body
RangeFiltered ==
  /\ Called("filterDataByDate")
  /\ Filtered
  /\ probe.data.shape = (IF build = "v1" THEN "array" ELSE "envelope")

\* the filter returned the records that satisfy Test, in their order
Positions(Test(_)) ==
  probe.out.val.items
    = LET Keep(item) == Test(item) IN SelectSeq(probe.data.records, Keep)

TodayFiltered ==
  Called("filterTodayData") /\ Filtered /\ probe.data.shape = "envelope"

\* the current instant, UTC
UtcNow == now - tz * HourMs

\* C17: the today filter returns exactly the records whose date field has,
\* as written, the calendar date that the current instant has at UTC-3;
\* the server's own time zone plays no part.
C17_TodayIsTheDateAtUtcMinus3 ==
  TodayFiltered =>
    LET todayAtUtcMinus3 == (UtcNow - 3 * HourMs) \div DayMs
        Match(item) ==
          ~Undated(item) /\ DateField(item) \div DayMs = todayAtUtcMinus3
    IN Positions(Match)

----------------------------------------------------------------------------
(* Properties of the start-up (SpecBoot) *)

\* C21: verifyEmailConnection never throws (a failed verification returns
\* false), it runs only once the server is listening, and a failed or
\* still pending verification never keeps /health or /trigger-report from
\* being served: a listening process takes the next request and carries on
\* with the requests in flight, whatever the state of the verification.
C21_VerificationNeverBlocksServing ==
  /\ server.up
  /\ (server.verify = "ready") => (server.returned = TRUE)
  /\ (server.verify = "failed") => (server.returned = FALSE)
  /\ (server.verify # "none") => server.listening
  /\ \A i \in DOMAIN reqs :
       /\ (server.listening /\ reqs[i].method = "NONE"
             /\ \A j \in DOMAIN reqs : j < i => reqs[j].method # "NONE")
            => /\ ENABLED HealthRequest(i)
               /\ ENABLED PostTriggerWith(i, PairDates)
               /\ ENABLED GetTriggerWith(i, PairDates)
       /\ (reqs[i].pc = "fetch")
            => ENABLED UpstreamRespondsWith(i, PairBodies)
       /\ (reqs[i].pc = "mail" /\ reqs[i].mail.pc = "sendMail")
            => ENABLED SendMailSucceedsWith(i, {PairMessageId(i)})

\* a trigger answered with success while the verification is still pending
C21_Witness ==
  /\ build = "v3"
  /\ server.verify = "pending"
  /\ \E i \in DOMAIN reqs :
       /\ IsTrigger(reqs[i])
       /\ reqs[i].status = 200

----------------------------------------------------------------------------
(* Properties of the statistics (SpecData) *)

\* the statistics analyzeData returned: station numbers in build v3, brand
\* numbers in builds v2 and v3
AnalysedAny == Called("analyzeData") /\ probe.out.ok

Finite(p) == p.hundredths \notin {NaN, Infinity}

\* C22: percentageWithPrices is the number 0 whenever activeStationsToday
\* is 0, also when records of today carry a price, and it is never NaN or
\* Infinity; the same holds of the brand percentage when no brand is active
\* today.
C22_ZeroDenominatorGivesZero ==
  AnalysedAny =>
    LET a == probe.out.val IN
      /\ (build = "v3") =>
           /\ Finite(a.gasStationStats.percentageWithPrices)
           /\ Finite(a.gasStationStats.percentageActive)
           /\ Finite(a.flagCompanyStats.percentageActive)
           /\ (a.gasStationStats.activeStationsToday = 0)
                => (a.gasStationStats.percentageWithPrices = Zero)
           /\ (a.flagCompanyStats.activeBrandsToday = 0)
                => (a.flagCompanyStats.percentageActive = Zero)
      /\ (build = "v2") =>
           /\ Finite(a.flagCompanyStats.percentage)
           /\ (a.flagCompanyStats.totalCompanies = 0)
                => (a.flagCompanyStats.percentage = Zero)

\* records of today carry a price, none names a station or a brand
C22_Witness ==
  /\ AnalysedAny
  /\ build = "v3"
  /\ probe.out.val.totalRecords > 0
  /\ probe.out.val.gasStationStats.activeStationsToday = 0
  /\ probe.out.val.gasStationStats.activeStationsWithPrices > 0
  /\ probe.out.val.flagCompanyStats.activeBrandsToday = 0
  /\ probe.out.val.flagCompanyStats.activeBrandsWithPrices > 0
  /\ probe.out.val.gasStationStats.percentageWithPrices = Zero

InPercent(p) == Finite(p) /\ p.hundredths >= 0 /\ p.hundredths <= 10000

\* C23: activeStationsWithPrices <= activeStationsToday <= totalStations and
\* activeBrandsWithPrices <= activeBrandsToday, so that every percentage
\* lies within 0 and 100, for every today subset, records whose idempresa or
\* empresabandera is missing or empty included.
C23_WithPricesWithinActive ==
  AnalysedAny =>
    LET a == probe.out.val IN
      /\ (build = "v3") =>
           /\ a.gasStationStats.activeStationsWithPrices
                <= a.gasStationStats.activeStationsToday
           /\ a.gasStationStats.activeStationsToday
                <= a.gasStationStats.totalStations
           /\ a.flagCompanyStats.activeBrandsWithPrices
                <= a.flagCompanyStats.activeBrandsToday
           /\ InPercent(a.gasStationStats.percentageActive)
           /\ InPercent(a.gasStationStats.percentageWithPrices)
           /\ InPercent(a.flagCompanyStats.percentageActive)
      /\ (build = "v2") =>
           /\ a.flagCompanyStats.companiesWithPrices
                <= a.flagCompanyStats.totalCompanies
           /\ InPercent(a.flagCompanyStats.percentage)

\* how many of `records` lie in the locality a group is named after
InLocality(records, name) ==
  Cardinality({i \in 1..Len(records) :
                 \/ records[i].localidad = name
                 \/ records[i].localidad = "" /\ name = SinEspecificar})

LocalitiesOf(records) ==
  {IF records[i].localidad = "" THEN SinEspecificar
   ELSE records[i].localidad : i \in 1..Len(records)}

\* C24: byLocality holds at most 10 groups, and they are the 10 with the
\* highest counts: no locality left out has a strictly greater count than
\* one that is included.
C24_TopTenLocalities ==
  (AnalysedAny /\ build = "v3") =>
    LET list == probe.out.val.byLocality
        records == probe.data.records
        included == {list[n].name : n \in 1..Len(list)}
    IN /\ Len(list) <= TopLocalities
       /\ Len(list) = Min(TopLocalities, Cardinality(LocalitiesOf(records)))
       /\ included \subseteq LocalitiesOf(records)
       /\ \A n \in 1..Len(list) :
            list[n].count = InLocality(records, list[n].name)
       /\ \A out \in LocalitiesOf(records) \ included, in \in included :
            InLocality(records, out) <= InLocality(records, in)

\* eleven localities, the one seen last has the most records and is kept
C24_Witness ==
  /\ AnalysedAny
  /\ build = "v3"
  /\ Cardinality(LocalitiesOf(probe.data.records)) > TopLocalities
  /\ Len(probe.out.val.byLocality) = TopLocalities
  /\ probe.out.val.byLocality[1].name = LocalityNames[TopLocalities + 1]
  /\ probe.out.val.byLocality[1].count > probe.out.val.byLocality[2].count

----------------------------------------------------------------------------
(* Properties of the mail configuration (SpecConfig) *)

\* C25: the transport is configured with secure = true exactly when the
\* effective port is 465, and with secure = false when it is 587, whatever
\* NODE_ENV, RAILWAY_ENVIRONMENT and SMTP_PORT hold.
C25_SecureExactlyOnPort465 ==
  (probe.pc = "emailConfig") =>
    /\ probe.out.secure <=> (probe.out.port = 465)
    /\ (probe.out.port = 587) => ~probe.out.secure

----------------------------------------------------------------------------
(* Properties of the trigger's answer (Spec) *)

\* the count a successful trigger answers with: todayRecords in build v3,
\* totalRecords in builds v1 and v2
AnsweredCount(r) ==
  IF "todayRecords" \in DOMAIN r.resp.result
    THEN r.resp.result.todayRecords
    ELSE r.resp.result.totalRecords

\* C26: in every successful trigger the count of the response (todayRecords,
\* totalRecords) equals the total shown in the report that was mailed, also
\* when midnight passes between the two filter calls and when an explicit
\* range is supplied.
C26_AnswerCountIsReportTotal ==
  \A i \in Reqs :
    LET r == reqs[i] IN
      (IsTrigger(r) /\ r.status = 200) =>
        AnsweredCount(r) = r.report.totalRecords

----------------------------------------------------------------------------
(* Properties of the trigger's termination (SpecLive) *)

Answered(r) == r.status \in {200, 400, 500}

\* nothing of an answered request changes any more
AnsweredOnce ==
  \A i \in DOMAIN reqs :
    (reqs[i].status # 0) => (reqs'[i] = reqs[i])

\* an answer is written once, and the loop makes at most `retries` calls
AtMostOneAnswer ==
  \A i \in DOMAIN reqs :
    LET r == reqs[i] IN
      IsTrigger(r) =>
        /\ r.status \in {0, 200, 400, 500}
        /\ Count(r.trace, "respond") <= 1
        /\ (r.status # 0) <=> (Count(r.trace, "respond") = 1)
        /\ (r.status # 0) <=> (r.pc = "done")
        /\ (build = "v3") => (r.mail.sends <= DefaultRetries)
        /\ (build # "v3") => (r.mail.sends <= 1)

\* C27: provided the upstream GET and each sendMail call return or fail and
\* timers fire, every trigger is eventually answered, with 200, 400 or 500;
\* the retry loop ends after at most `retries` sendMail calls, and no
\* request is answered twice or left unanswered.
C27_EveryTriggerAnsweredOnce ==
  /\ \A i \in 1..MaxLiveReqs :
       IsTrigger(reqs[i]) ~> Answered(reqs[i])
  /\ []AtMostOneAnswer
  /\ [][AnsweredOnce]_vars

\* a trigger answered after the retry loop used up its attempts
C27_Witness ==
  \E i \in DOMAIN reqs :
    /\ build = "v3"
    /\ IsTrigger(reqs[i])
    /\ reqs[i].status = 500
    /\ reqs[i].mail.sends = DefaultRetries
    /\ Cardinality(Failures(reqs[i].mail)) = DefaultRetries
    /\ Count(reqs[i].trace, "respond") = 1

----------------------------------------------------------------------------
(* Properties of the default period (Spec) *)

\* C28: a POST /trigger-report that leaves startDate out is never answered
\* with 400 "Start date cannot be after end date.": the start date the
\* handler resolves is not after the end date, whatever endDate was
\* supplied, one more than 7 days in the past included.
C28_DefaultedStartNeverAfterEnd ==
  \A i \in Reqs :
    LET r == reqs[i] IN
      (r.method = "POST" /\ r.resolved /\ r.startDate = Undefined) =>
        /\ r.resp # [error |-> "Start date cannot be after end date."]
        /\ IsDay(r.end) => r.start <= r.end

----------------------------------------------------------------------------
(* Properties of the fetched dataset (Spec) *)

\* C29: filtering, aggregation and rendering leave the fetched dataset
\* unchanged: once the filters, analyzeData and generateReport have run, the
\* response body holds the same records in the same order with the same
\* field values as when it was fetched, so the second filter pass works on
\* the input of the first.
C29_DatasetUnchanged ==
  \A i \in Reqs :
    LET r == reqs[i] IN
      (IsTrigger(r) /\ r.upstream = "ok") =>
        /\ r.dataset = r.received
        /\ r.dataset.records = r.received.records

\* a report was rendered from a body of which the filter kept only a part
C29_Witness ==
  \E i \in Reqs :
    /\ IsTrigger(reqs[i])
    /\ reqs[i].status = 200
    /\ reqs[i].report.format = "html"
    /\ reqs[i].received.records = <<RToday, ROld>>
    /\ reqs[i].filtered = 1
    /\ reqs[i].dataset.records = <<RToday, ROld>>

====
